---- MODULE Spec2Model ----
(***************************************************************************)
(* Model of scripts/embeddings.py: a line-oriented embedding server.       *)
(* main() prints a ready line, then reads stdin line by line; each         *)
(* non-blank line other than QUIT goes through handle_request(), which     *)
(* parses it, resolves the model through load_model() and the module-level *)
(* _model_cache, calls generate_embedding() and returns a response object  *)
(* that main() serialises with json.dumps and prints.                      *)
(*                                                                         *)
(* The sentence-transformers loader and the model's encode() are external: *)
(* each invocation either raises or returns, chosen nondeterministically.  *)
(***************************************************************************)
EXTENDS Integers, Sequences, FiniteSets, TLC

\* ------------------------------------------------------------------ bounds
\* Longest stdin the model explores.
MaxLines == 3

\* ------------------------------------------------------------ input domain
ModelNames == {"m1", "m2"}
Texts == {"hello"}
Absent == "<absent>"

\* A parsed JSON value, as json.loads returns it.  For an object `keys` are
\* its keys, for an array its elements; `text`/`model` are the values stored
\* under those keys of an object.
JsonNumber == [type |-> "number", keys |-> {}, text |-> Absent, model |-> Absent]
JsonArray == [type |-> "array", keys |-> {"text", "model"}, text |-> Absent, model |-> Absent]
JsonObjects ==
    {[type |-> "object", keys |-> {}, text |-> Absent, model |-> Absent]}
    \cup {[type |-> "object", keys |-> {"model"}, text |-> Absent, model |-> "m1"]}
    \cup {[type |-> "object", keys |-> {"text"}, text |-> t, model |-> Absent] : t \in Texts}
    \cup {[type |-> "object", keys |-> {"text", "model"}, text |-> t, model |-> m] :
              t \in Texts, m \in ModelNames}
JsonValues == {JsonNumber, JsonArray} \cup JsonObjects
NoJson == [type |-> "none", keys |-> {}, text |-> Absent, model |-> Absent]

\* The content of a line between its surrounding whitespace: nothing, a bare
\* word that is not JSON, or the text of a JSON value.
Bodies ==
    {[kind |-> "empty", word |-> "", val |-> NoJson]}
    \cup {[kind |-> "word", word |-> w, val |-> NoJson] : w \in {"QUIT", "quit", "not json"}}
    \cup {[kind |-> "json", word |-> "", val |-> v] : v \in JsonValues}

\* A raw stdin line: a body, possibly with whitespace around it (the newline
\* always counts; `pad` says there are further blanks or tabs).
Lines ==
    {[pad |-> FALSE, body |-> b] : b \in Bodies}
    \cup {[pad |-> TRUE, body |-> b] : b \in {c \in Bodies : c.kind \in {"empty", "word"} /\ c.word \in {"", "QUIT"}}}

RECURSIVE SeqsUpTo(_, _)
SeqsUpTo(S, n) ==
    IF n = 0 THEN {<<>>}
    ELSE LET shorter == SeqsUpTo(S, n - 1)
         IN shorter \cup {Append(s, x) : s \in {t \in shorter : Len(t) = n - 1}, x \in S}

Inputs == SeqsUpTo(Lines, MaxLines)

\* ----------------------------------------------------------- Python values
\* What load_model / generate_embedding hand back: a model handle, a list of
\* floats, or the 2-tuple (None, str(e)) of their except branches.
PyModel(h) == [py |-> "model", handle |-> h, detail |-> "", vec |-> <<>>]
PyList(v) == [py |-> "list", handle |-> 0, detail |-> "", vec |-> v]
PyTuple(d) == [py |-> "tuple", handle |-> 0, detail |-> d, vec |-> <<>>]

\* `x is None`
IsNone(x) == x.py = "None"

\* Variant: the astype(np.float32) conversion is left out.
AsFloat32_skipped(v) == v

\* Doubles are modelled as integers; the values a float32 can hold are the
\* even ones.  ndarray.astype(np.float32) rounds each element to one of them.
AsFloat32(v) == [i \in 1..Len(v) |-> (v[i] \div 2) * 2]

\* Outcomes of the external calls.
LoaderOutcomes == {"ok", "raise"}
EncodeOutcomes ==
    {[kind |-> "raise", vec |-> <<>>],
     [kind |-> "ndarray32", vec |-> <<4, 2>>],
     [kind |-> "ndarray64", vec |-> <<5, 2>>],
     [kind |-> "list", vec |-> <<4, 2>>]}

\* ---------------------------------------------------------------- responses
\* A response object: {"error": f"<msg>: <detail>"} or {"embedding": value}.
\* `shape` is the Python type of the value stored under the key.
ErrorResponse(msg, detail) ==
    [key |-> "error", shape |-> "str", msg |-> msg, detail |-> detail, vec |-> <<>>]
EmbeddingResponse(value) ==
    [key |-> "embedding", shape |-> value.py, msg |-> "", detail |-> value.detail, vec |-> value.vec]
ReadyLine ==
    [key |-> "status", shape |-> "str", msg |-> "ready", detail |-> "", vec |-> <<>>]

\* json.dumps(obj): a str stays a JSON string, a list of floats becomes an
\* array of numbers, and a tuple is written as an array too, so that
\* (None, "<detail>") comes out as [null, "<detail>"].
JsonDumps(obj) ==
    [obj EXCEPT !.shape = CASE obj.shape = "list" -> "array of numbers"
                            [] obj.shape = "tuple" -> "array of null and string"
                            [] OTHER -> "string"]

\* Variant: no cache lookup, the loader runs on every call.
load_model_always_loads(cache, model_name, lo, h) ==
    IF lo = "ok"
    THEN [ret |-> PyModel(h), cache |-> [m \in DOMAIN cache \cup {model_name} |-> IF m = model_name THEN h ELSE cache[m]],
          loaded |-> TRUE]
    ELSE [ret |-> PyTuple("load failed"), cache |-> cache, loaded |-> TRUE]

\* Variant: the cache entry is written before the loader is known to succeed.
load_model_caches_failure(cache, model_name, lo, h) ==
    IF model_name \in DOMAIN cache
    THEN [ret |-> PyModel(cache[model_name]), cache |-> cache, loaded |-> FALSE]
    ELSE IF lo = "ok"
         THEN [ret |-> PyModel(h), cache |-> cache @@ (model_name :> h), loaded |-> TRUE]
         ELSE [ret |-> PyTuple("load failed"), cache |-> cache @@ (model_name :> h), loaded |-> TRUE]

\* Variant: the cache keeps only the model loaded last.
load_model_single_entry(cache, model_name, lo, h) ==
    IF model_name \in DOMAIN cache
    THEN [ret |-> PyModel(cache[model_name]), cache |-> cache, loaded |-> FALSE]
    ELSE IF lo = "ok"
         THEN [ret |-> PyModel(h), cache |-> (model_name :> h), loaded |-> TRUE]
         ELSE [ret |-> PyTuple("load failed"), cache |-> cache, loaded |-> TRUE]

\* Variant: a failed load is remembered as an unusable entry.
load_model_remembers_failure(cache, model_name, lo, h) ==
    IF model_name \in DOMAIN cache
    THEN [ret |-> IF cache[model_name] = 0 THEN PyTuple("load failed") ELSE PyModel(cache[model_name]),
          cache |-> cache, loaded |-> FALSE]
    ELSE IF lo = "ok"
         THEN [ret |-> PyModel(h), cache |-> cache @@ (model_name :> h), loaded |-> TRUE]
         ELSE [ret |-> PyTuple("load failed"), cache |-> cache @@ (model_name :> 0), loaded |-> TRUE]

\* ------------------------------------------------------------- load_model
\* cache: _model_cache; lo: what SentenceTransformer(model_name) does if it is
\* called; h: the handle it returns.  `loaded` tells whether it was called.
load_model(cache, model_name, lo, h) ==
    IF model_name \in DOMAIN cache
    THEN [ret |-> PyModel(cache[model_name]), cache |-> cache, loaded |-> FALSE]
    ELSE IF lo = "ok"
         THEN [ret |-> PyModel(h), cache |-> cache @@ (model_name :> h), loaded |-> TRUE]
         ELSE [ret |-> PyTuple("load failed"), cache |-> cache, loaded |-> TRUE]

\* ------------------------------------------------------ generate_embedding
\* eo: what model.encode(text, ...) does if it is called.  `encoded` tells
\* whether a model's encode was called.
generate_embedding(model, text, eo) ==
    IF model.py # "model"
    THEN [ret |-> PyTuple("'tuple' object has no attribute 'encode'"), encoded |-> FALSE]
    ELSE [encoded |-> TRUE,
          ret |-> CASE eo.kind = "raise" -> PyTuple("encode failed")
                    [] eo.kind = "ndarray32" -> PyList(AsFloat32(eo.vec))
                    [] eo.kind = "ndarray64" -> PyList(AsFloat32(eo.vec))
                    [] eo.kind = "list" -> PyTuple("'list' object has no attribute 'tolist'")]

\* ---------------------------------------------------------- handle_request
\* Variant: a parser that accepts any text and yields an empty object.
JsonLoads_lenient(body) ==
    IF body.kind = "json" THEN [ok |-> TRUE, val |-> body.val]
    ELSE [ok |-> TRUE, val |-> [type |-> "object", keys |-> {}, text |-> Absent, model |-> Absent]]

\* json.loads(request_data): a value, or JSONDecodeError.
JsonLoads(body) ==
    IF body.kind = "json" THEN [ok |-> TRUE, val |-> body.val]
    ELSE [ok |-> FALSE, val |-> NoJson]

\* Variant: the membership test is taken to work on every JSON value.
SupportsIn_anything(request) == TRUE

\* Whether `"key" in request` evaluates at all (a number is not iterable).
SupportsIn(request) == request.type \in {"object", "array"}

\* Whether request["key"] evaluates (a list wants integer indices).
SupportsItem(request) == request.type = "object"

\* Variant: the text check is missing.
validate_without_text_check(request) ==
    IF "model" \notin request.keys
    THEN ErrorResponse("Missing 'model' field in request", "")
    ELSE ErrorResponse("", "")

\* Variant: model is checked before text.
validate_model_first(request) ==
    IF "model" \notin request.keys
    THEN ErrorResponse("Missing 'model' field in request", "")
    ELSE IF "text" \notin request.keys
    THEN ErrorResponse("Missing 'text' field in request", "")
    ELSE ErrorResponse("", "")

\* The two presence checks, in the order the code makes them.
validate(request) ==
    IF "text" \notin request.keys
    THEN ErrorResponse("Missing 'text' field in request", "")
    ELSE IF "model" \notin request.keys
    THEN ErrorResponse("Missing 'model' field in request", "")
    ELSE ErrorResponse("", "")

\* Variant: the presence checks are skipped and the model is resolved first.
Valid_unchecked(request) == TRUE

Valid(request) == validate(request).msg = ""

\* A return that happens before load_model is reached.
Rejected(cache, resp) ==
    [resp |-> resp, cache |-> cache, loaded |-> FALSE, encoded |-> FALSE, model |-> PyTuple("")]

handle_request(body, cache, lo, eo, h) ==
    LET parsed == JsonLoads(body)
        request == parsed.val
    IN  IF ~parsed.ok
        THEN Rejected(cache, ErrorResponse("Invalid JSON input", "decode error"))
        ELSE IF ~SupportsIn(request)
        THEN Rejected(cache, ErrorResponse("Unexpected error", "argument of type 'int' is not iterable"))
        ELSE IF ~Valid(request)
        THEN Rejected(cache, validate(request))
        ELSE IF ~SupportsItem(request)
        THEN Rejected(cache, ErrorResponse("Unexpected error", "list indices must be integers or slices, not str"))
        ELSE LET lm == load_model(cache, request.model, lo, h)
                 ge == generate_embedding(lm.ret, request.text, eo)
             IN  IF IsNone(lm.ret)
                 THEN [resp |-> ErrorResponse("Failed to load model", request.model),
                       cache |-> lm.cache, loaded |-> lm.loaded, encoded |-> FALSE, model |-> lm.ret]
                 ELSE IF IsNone(ge.ret)
                 THEN [resp |-> ErrorResponse("Failed to generate embedding", ""),
                       cache |-> lm.cache, loaded |-> lm.loaded, encoded |-> ge.encoded, model |-> lm.ret]
                 ELSE [resp |-> EmbeddingResponse(ge.ret),
                       cache |-> lm.cache, loaded |-> lm.loaded, encoded |-> ge.encoded, model |-> lm.ret]

\* -------------------------------------------------------------------- state
VARIABLES
    pc,        \* where main() is: "start", "read", "handle", "write", "except",
               \* "except_io", "exit", "done"
    stdin,     \* the lines standard input will deliver
    pos,       \* how many of them `for line in sys.stdin` has delivered
    line,      \* the stripped line handle_request is working on
    response,  \* the object handle_request returned, not yet printed
    cache,     \* _model_cache: model name -> handle
    stdout,    \* the lines printed so far
    answered,  \* history: for each printed response, the stdin position it answers
    loads,     \* history: every call of the SentenceTransformer loader
    call       \* history: what the latest handle_request call did

vars == <<pc, stdin, pos, line, response, cache, stdout, answered, loads, call>>

NoLine == [kind |-> "empty", word |-> "", val |-> NoJson]
NoResponse == [key |-> "none", shape |-> "str", msg |-> "", detail |-> "", vec |-> <<>>]
NoOutcome == [kind |-> "none", vec |-> <<>>]
EmptyCache == [m \in {} |-> 0]
NoCall ==
    [n |-> 0, line |-> NoLine, before |-> EmptyCache, loaded |-> FALSE, loadOk |-> FALSE,
     encoded |-> FALSE, out |-> NoOutcome, model |-> PyTuple(""), resp |-> NoResponse]

Init ==
    /\ pc = "start"
    /\ stdin \in Inputs
    /\ pos = 0
    /\ line = NoLine
    /\ response = NoResponse
    /\ cache = EmptyCache
    /\ stdout = <<>>
    /\ answered = <<>>
    /\ loads = <<>>
    /\ call = NoCall

\* line.strip()
Strip(raw) == raw.body

\* Variant: the blank-line test never fires.
IsBlank_never(l) == FALSE

\* `not line`
IsBlank(l) == l.kind = "empty"

\* Variant: the sentinel is compared without regard to case.
IsQuit_any_case(l) == l.kind = "word" /\ l.word \in {"QUIT", "quit"}

\* Variant: the sentinel test never fires.
IsQuit_never(l) == FALSE

\* line == "QUIT"
IsQuit(l) == l.kind = "word" /\ l.word = "QUIT"

\* Variant: the loop is entered without the readiness line.
PrintReady_missing ==
    /\ pc = "start"
    /\ pc' = "read"
    /\ UNCHANGED <<stdin, pos, line, response, cache, stdout, answered, loads, call>>

\* print(json.dumps({"status": "ready"}), flush=True)
PrintReady ==
    /\ pc = "start"
    /\ stdout' = Append(stdout, JsonDumps(ReadyLine))
    /\ pc' = "read"
    /\ UNCHANGED <<stdin, pos, line, response, cache, answered, loads, call>>

\* One turn of `for line in sys.stdin` up to the call of handle_request.
ReadLine ==
    /\ pc = "read"
    /\ pos < Len(stdin)
    /\ pos' = pos + 1
    /\ LET l == Strip(stdin[pos + 1])
       IN  IF IsBlank(l) THEN pc' = "read" /\ line' = line
           ELSE IF IsQuit(l) THEN pc' = "exit" /\ line' = line
           ELSE pc' = "handle" /\ line' = l
    /\ UNCHANGED <<stdin, response, cache, stdout, answered, loads, call>>

\* Variant: the end of input is tested one line too late and never seen.
EndOfInput_off_by_one ==
    /\ pc = "read"
    /\ pos > Len(stdin)
    /\ pc' = "exit"
    /\ UNCHANGED <<stdin, pos, line, response, cache, stdout, answered, loads, call>>

\* sys.stdin is exhausted: the for loop ends.
EndOfInput ==
    /\ pc = "read"
    /\ pos = Len(stdin)
    /\ pc' = "exit"
    /\ UNCHANGED <<stdin, pos, line, response, cache, stdout, answered, loads, call>>

\* response = handle_request(line)
HandleRequest ==
    /\ pc = "handle"
    /\ \E lo \in LoaderOutcomes, eo \in EncodeOutcomes :
         LET r == handle_request(line, cache, lo, eo, Len(loads) + 1)
         IN  /\ response' = r.resp
             /\ cache' = r.cache
             /\ loads' = IF r.loaded
                         THEN Append(loads, [name |-> line.val.model, ok |-> (lo = "ok"), at |-> pos])
                         ELSE loads
             /\ call' = [n |-> pos, line |-> line, before |-> cache, loaded |-> r.loaded,
                         loadOk |-> (r.loaded /\ lo = "ok"), encoded |-> r.encoded,
                         out |-> IF r.encoded THEN eo ELSE NoOutcome,
                         model |-> r.model, resp |-> r.resp]
    /\ pc' = "write"
    /\ UNCHANGED <<stdin, pos, line, stdout, answered>>

\* print(json.dumps(response), flush=True)
WriteResponse ==
    /\ pc = "write"
    /\ stdout' = Append(stdout, JsonDumps(response))
    /\ answered' = Append(answered, pos)
    /\ response' = NoResponse
    /\ line' = NoLine
    /\ pc' = "read"
    /\ UNCHANGED <<stdin, pos, cache, loads, call>>

\* finally: gc.collect()
Cleanup ==
    /\ pc = "exit"
    /\ pc' = "done"
    /\ UNCHANGED <<stdin, pos, line, response, cache, stdout, answered, loads, call>>

Next ==
    \/ PrintReady
    \/ ReadLine
    \/ EndOfInput
    \/ HandleRequest
    \/ WriteResponse
    \/ Cleanup

Spec == Init /\ [][Next]_vars

\* The process is a single thread that keeps running: whenever main() can
\* take its next step it eventually does (the loader and the model return).
FairSpec == Spec /\ WF_vars(Next)

\* ------------------------------------------------------ abnormal loop exits
\* Variant: the exception is caught inside the loop, reported, and the loop
\* carries on with the next line.
LoopFailure_loop_continues ==
    /\ pc \in {"read", "write"}
    /\ stdout' = Append(stdout, JsonDumps(ErrorResponse("Server error", "exception")))
    /\ pc' = "read"
    /\ UNCHANGED <<stdin, pos, line, response, cache, answered, loads, call>>

\* An exception raised in the loop outside handle_request (sys.stdin failing
\* to decode the next line, json.dumps failing on the response) reaches
\* `except Exception`; the loop is left and pc = "except" is the handler.
LoopFailure ==
    /\ pc \in {"read", "write"}
    /\ pc' = "except"
    /\ UNCHANGED <<stdin, pos, line, response, cache, stdout, answered, loads, call>>

\* print(json.dumps({"error": f"Server error: {str(e)}"}), flush=True)
ReportServerError ==
    /\ pc = "except"
    /\ stdout' = Append(stdout, JsonDumps(ErrorResponse("Server error", "exception")))
    /\ pc' = "exit"
    /\ UNCHANGED <<stdin, pos, line, response, cache, answered, loads, call>>

\* print() itself raises because standard output no longer takes data (the
\* reader has gone, the device is full): the same `except Exception` is
\* reached, with standard output unusable; pc = "except_io" is that handler.
OutputFailure ==
    /\ pc \in {"start", "write"}
    /\ pc' = "except_io"
    /\ UNCHANGED <<stdin, pos, line, response, cache, stdout, answered, loads, call>>

\* The handler's print raises in turn: nothing is printed, `finally` runs and
\* the exception leaves main().
ReportServerErrorFails ==
    /\ pc = "except_io"
    /\ pc' = "exit"
    /\ UNCHANGED <<stdin, pos, line, response, cache, stdout, answered, loads, call>>

\* KeyboardInterrupt (not an Exception, so handle_request does not catch it)
\* reaches `except KeyboardInterrupt: pass`: the loop is left silently.
Interrupt ==
    /\ pc \in {"start", "read", "handle", "write"}
    /\ pc' = "exit"
    /\ UNCHANGED <<stdin, pos, line, response, cache, stdout, answered, loads, call>>

NextWithFaults ==
    \/ Next
    \/ LoopFailure
    \/ ReportServerError
    \/ OutputFailure
    \/ ReportServerErrorFails
    \/ Interrupt

\* Spec describes the runs in which no signal arrives and nothing raises in
\* the loop itself; SpecWithFaults adds those ways out of the loop.
SpecWithFaults == Init /\ [][NextWithFaults]_vars

TypeOK ==
    /\ pc \in {"start", "read", "handle", "write", "except", "except_io", "exit", "done"}
    /\ pos \in 0..Len(stdin)
    /\ DOMAIN cache \subseteq ModelNames

\* =================================================================== claims
\* Vocabulary of the claims, stated on the raw input and on the history
\* variables rather than through the operators of the code.
BlankLine(raw) == raw.body.kind = "empty"
QuitLine(raw) == raw.body.kind = "word" /\ raw.body.word = "QUIT"
JsonLine(raw) == raw.body.kind = "json"

\* The positions among the first n input lines that hold a request: neither
\* blank nor QUIT, and with no QUIT before them.
RECURSIVE RequestPositions(_)
RequestPositions(n) ==
    IF n = 0 THEN <<>>
    ELSE IF \E i \in 1..(n - 1) : QuitLine(stdin[i]) THEN RequestPositions(n - 1)
    ELSE IF BlankLine(stdin[n]) \/ QuitLine(stdin[n]) THEN RequestPositions(n - 1)
    ELSE Append(RequestPositions(n - 1), n)

\* The loop has left a request between reading it and printing its response.
InFlight == pc \in {"handle", "write"}

\* handle_request has just returned for the line at position pos.
Returned == pc = "write" /\ call.n = pos

\* The request of the latest call had both fields, so load_model was reached.
ReachedLoad == call.line.kind = "json" /\ call.line.val.type = "object"
                   /\ call.line.val.keys = {"text", "model"}

\* C1: after the ready line the output holds exactly one response line per
\* request line read so far (non-blank, not QUIT, before the first QUIT), in
\* input order; a request's response is printed before the next line is read;
\* when the loop has ended every request line before the first QUIT or the
\* end of input has its response, and blank lines have none.
C1_OneResponsePerRequestInOrder ==
    /\ pc # "start" => Len(stdout) = 1 + Len(answered)
    /\ \A i \in 2..Len(stdout) : stdout[i].key \in {"embedding", "error"}
    /\ InFlight => answered = RequestPositions(pos - 1)
                     /\ RequestPositions(pos) = Append(answered, pos)
    /\ ~InFlight => answered = RequestPositions(pos)
    /\ pc \in {"exit", "done"} => answered = RequestPositions(Len(stdin))

\* Two requests answered around a skipped blank line, loop ended.
C1_Witness ==
    /\ pc = "done"
    /\ Len(answered) = 2
    /\ \E i \in 1..pos : BlankLine(stdin[i]) /\ i < answered[2]

\* C2: when load_model's loader raises for a request with text and model, the
\* response is exactly {"error": "Failed to load model: <model>"} and the
\* model's inference is not invoked.
C2_LoadFailureReported ==
    (Returned /\ call.loaded /\ ~call.loadOk)
        => /\ response = ErrorResponse("Failed to load model", call.line.val.model)
           /\ ~call.encoded

\* C3: when the model was resolved and inference fails (encode raises, or the
\* conversion of its result raises), the response is exactly
\* {"error": "Failed to generate embedding"}.
C3_InferenceFailureReported ==
    (Returned /\ call.model.py = "model" /\ call.encoded /\ call.out.kind \in {"raise", "list"})
        => response = ErrorResponse("Failed to generate embedding", "")

\* The latest call did not end with a vector obtained from the model.
CallFailed ==
    ~(ReachedLoad /\ call.encoded /\ call.out.kind \in {"ndarray32", "ndarray64"})

\* C4: every line printed after the ready line is either an embedding object
\* holding an array of numbers or an error object holding a string, and a
\* failed request always prints the error shape.
C4_TwoResponseShapes ==
    /\ \A i \in 2..Len(stdout) :
          \/ stdout[i].key = "embedding" /\ stdout[i].shape = "array of numbers"
          \/ stdout[i].key = "error" /\ stdout[i].shape = "string"
    /\ (Returned /\ CallFailed) => response.key = "error"

\* The step in which handle_request runs for the line at position pos.
Handling == pc = "handle" /\ pc' = "write"

\* The loop has ended only because QUIT was read or the input ran out.
EndedByQuitOrEof ==
    pc \in {"exit", "done"} => (pos = Len(stdin) \/ (pos > 0 /\ QuitLine(stdin[pos])))

\* C5: a request naming a model that is already in the cache is served with
\* the cached handle, without a call of the loader and without touching the
\* cache.
C5_CachedModelNotReloaded ==
    [][(Handling /\ Valid(line.val) /\ line.val.type = "object" /\ line.val.model \in DOMAIN cache)
          => /\ loads' = loads
             /\ ~call'.loaded
             /\ call'.model = PyModel(cache[line.val.model])
             /\ cache' = cache]_vars

\* The same model requested again after its load succeeded.
C5_Witness ==
    /\ Returned /\ ReachedLoad
    /\ call.line.val.model \in DOMAIN call.before
    /\ \E k \in 1..Len(loads) : loads[k].name = call.line.val.model /\ loads[k].ok

\* C6: a request whose model load fails leaves the cache as it was, with no
\* entry under the failing name, and the loop goes on: the response is
\* printed, the loop returns to reading, and it ends only on QUIT or at the
\* end of input.
C6_FailedLoadKeepsCacheAndLoop ==
    /\ [][(Handling /\ call'.loaded /\ ~call'.loadOk)
             => /\ cache' = cache
                /\ line.val.model \notin DOMAIN cache']_vars
    /\ [][pc = "write" => (pc' = "read" /\ cache' = cache)]_vars
    /\ [](pc = "read" /\ pos < Len(stdin) => ENABLED ReadLine)
    /\ []EndedByQuitOrEof

\* A load failed and a later line was handled.
C6_Witness ==
    /\ Returned
    /\ \E k \in 1..Len(loads) : ~loads[k].ok /\ loads[k].at < call.n
                                   /\ loads[k].name \notin DOMAIN cache

\* The model ran on the request's text and its result could be converted.
InferenceSucceeded ==
    Returned /\ ReachedLoad /\ call.encoded /\ call.out.kind \in {"ndarray32", "ndarray64"}

\* C7 as stated: a request whose model loads and whose inference succeeds is
\* answered with {"embedding": v}, v being exactly the vector the model
\* produced.
C7_EmbeddingIsModelOutput ==
    InferenceSucceeded => response = EmbeddingResponse(PyList(call.out.vec))

\* A value a float32 holds exactly.
Float32Value(x) == x % 2 = 0

\* C7 amended: the response is {"embedding": v}, an array with one float32
\* value per element of the model's vector, in the same order, each the
\* float32 rounding of that element (so the element itself when the model
\* already produced float32), and there is no error field.
C7_EmbeddingIsModelOutputAsFloat32 ==
    InferenceSucceeded
        => /\ response.key = "embedding" /\ response.shape = "list"
           /\ Len(response.vec) = Len(call.out.vec)
           /\ \A i \in 1..Len(response.vec) :
                 /\ Float32Value(response.vec[i])
                 /\ call.out.vec[i] - response.vec[i] \in {0, 1}
           /\ call.out.kind = "ndarray32" => response.vec = call.out.vec

\* The model produced doubles that float32 cannot hold.
C7_Witness ==
    /\ InferenceSucceeded
    /\ call.out.kind = "ndarray64"
    /\ \E i \in 1..Len(call.out.vec) : ~Float32Value(call.out.vec[i])
    /\ response.key = "embedding"

\* C8 as stated: every line that parses as JSON and has no text field is
\* answered with exactly {"error": "Missing 'text' field in request"}.
C8_MissingTextAnyJson ==
    (Returned /\ call.line.kind = "json" /\ "text" \notin call.line.val.keys)
        => response = ErrorResponse("Missing 'text' field in request", "")

\* C8 amended: every line that parses as a JSON object with no text field is
\* answered with exactly {"error": "Missing 'text' field in request"},
\* whatever other fields it has; a line that parses to a number is answered
\* with an "Unexpected error" instead.
C8_MissingTextJsonObject ==
    /\ (Returned /\ call.line.kind = "json" /\ call.line.val.type = "object"
           /\ "text" \notin call.line.val.keys)
          => response = ErrorResponse("Missing 'text' field in request", "")
    /\ (Returned /\ call.line.kind = "json" /\ call.line.val.type = "number")
          => (response.key = "error" /\ response.msg = "Unexpected error")

\* An object that has a model field but no text field was answered.
C8_Witness ==
    /\ Returned
    /\ call.line.kind = "json" /\ call.line.val.type = "object"
    /\ call.line.val.keys = {"model"}

\* C9: validation checks text before model: an object with text and no model
\* is answered with exactly {"error": "Missing 'model' field in request"},
\* and an object with neither gets the text error, not the model error.
C9_TextCheckedBeforeModel ==
    /\ (Returned /\ call.line.kind = "json" /\ call.line.val.type = "object"
           /\ call.line.val.keys = {"text"})
          => response = ErrorResponse("Missing 'model' field in request", "")
    /\ (Returned /\ call.line.kind = "json" /\ call.line.val.type = "object"
           /\ call.line.val.keys = {})
          => response = ErrorResponse("Missing 'text' field in request", "")

\* Both kinds of request were answered in one run: first {} then text only.
C9_Witness ==
    /\ Returned
    /\ call.line.kind = "json" /\ call.line.val.type = "object" /\ call.line.val.keys = {"text"}
    /\ \E i \in 1..Len(answered) : JsonLine(stdin[answered[i]]) /\ stdin[answered[i]].body.val.type = "object"
                                      /\ stdin[answered[i]].body.val.keys = {}

\* C10: a line that is not JSON is answered with an error starting with
\* "Invalid JSON input", changes neither the cache nor the loader's history,
\* and does not end the loop: the response is printed, the loop returns to
\* reading and ends only on QUIT or at the end of input.
C10_InvalidJsonReportedLoopContinues ==
    /\ [][(Handling /\ line.kind # "json")
             => /\ response'.key = "error" /\ response'.msg = "Invalid JSON input"
                /\ cache' = cache /\ loads' = loads
                /\ ~call'.loaded /\ ~call'.encoded]_vars
    /\ [][(pc = "write" /\ line.kind # "json")
             => /\ pc' = "read"
                /\ stdout' = Append(stdout, [response EXCEPT !.shape = "string"])]_vars
    /\ [](pc = "read" /\ pos < Len(stdin) => ENABLED ReadLine)
    /\ []EndedByQuitOrEof

\* A malformed line was answered, and after it a valid request got its
\* embedding.
C10_Witness ==
    /\ Len(answered) >= 2
    /\ stdin[answered[1]].body.kind = "word"
    /\ stdout[3].key = "embedding" /\ stdout[3].shape = "array of numbers"

\* Nothing observable changes in this step: output, cache, loader history,
\* answered positions and the read position stay as they are.
Quiet ==
    /\ stdout' = stdout /\ cache' = cache /\ loads' = loads
    /\ answered' = answered /\ pos' = pos /\ call' = call

\* C11: reading QUIT prints nothing and ends the loop; from then on no line
\* is read or handled, nothing is printed and the model cache does not
\* change, whatever lines follow QUIT in the input.
C11_QuitEndsLoopSilently ==
    /\ [][(pc = "read" /\ pos < Len(stdin) /\ QuitLine(stdin[pos + 1]))
             => /\ pc' = "exit"
                /\ stdout' = stdout /\ cache' = cache /\ loads' = loads
                /\ answered' = answered]_vars
    /\ [][(pc \in {"exit", "done"}) => (Quiet /\ pc' = "done")]_vars
    /\ [](pc = "done" => ~ENABLED Next)

\* QUIT was read after an answered request, a request line follows it in the
\* input, and the run is over with that line unread.
C11_Witness ==
    /\ pc = "done"
    /\ pos > 0 /\ pos < Len(stdin)
    /\ QuitLine(stdin[pos])
    /\ JsonLine(stdin[pos + 1])
    /\ Len(answered) = 1
    /\ Len(stdout) = 2

\* The raw line is QUIT with nothing but its newline around it.
ExactQuitLine(raw) == QuitLine(raw) /\ ~raw.pad

\* The line at position i has its response printed, or is the request the
\* loop is working on.
AnsweredOrInFlight(i) ==
    \/ \E k \in 1..Len(answered) : answered[k] = i
    \/ (InFlight /\ i = pos)

\* C12 as stated: only a line that is exactly QUIT ends the loop; every other
\* non-blank line read, QUIT with surrounding whitespace included, goes to
\* the request handler and gets a response.
C12_OnlyExactQuitEndsLoop ==
    /\ \A i \in 1..pos :
          (~BlankLine(stdin[i]) /\ ~ExactQuitLine(stdin[i])) => AnsweredOrInFlight(i)
    /\ (pc \in {"exit", "done"} /\ pos < Len(stdin)) => ExactQuitLine(stdin[pos])

\* C12 amended: only a line that is QUIT once its leading and trailing
\* whitespace is stripped ends the loop; every other non-blank line read
\* (a different casing, for example) goes to the request handler and gets
\* one response.
C12_OnlyStrippedQuitEndsLoop ==
    /\ \A i \in 1..pos :
          (~BlankLine(stdin[i]) /\ ~QuitLine(stdin[i])) => AnsweredOrInFlight(i)
    /\ \A i \in 1..pos : QuitLine(stdin[i]) => (i = pos /\ pc \in {"exit", "done"})
    /\ (pc \in {"exit", "done"} /\ pos < Len(stdin)) => QuitLine(stdin[pos])
    /\ Len(answered) <= pos

\* The lower-case word was answered like any request, and QUIT with
\* whitespace around it then ended the loop before the last line.
C12_Witness ==
    /\ pc = "done"
    /\ pos = 2 /\ Len(stdin) = 3
    /\ stdin[1].body.word = "quit" /\ answered = <<1>>
    /\ QuitLine(stdin[2]) /\ stdin[2].pad

\* The text {"status": "ready"} as it appears on standard output.
ReadyText == [key |-> "status", shape |-> "string", msg |-> "ready", detail |-> "", vec |-> <<>>]

\* C13: the first output line is exactly {"status": "ready"}; it is printed
\* before any input line is read (nothing is read and nothing else is printed
\* while it is missing) and no later output line is a status line; this
\* holds also in runs cut short by an interrupt or a loop-level exception.
C13_ReadyLineFirstAndOnce ==
    /\ Len(stdout) >= 1 => stdout[1] = ReadyText
    /\ \A i \in 2..Len(stdout) : stdout[i] # ReadyText /\ stdout[i].key # "status"
    /\ pc = "start" => (stdout = <<>> /\ pos = 0)
    /\ pc \in {"read", "handle", "write", "except"} => Len(stdout) >= 1
    /\ pos > 0 => Len(stdout) >= 1

\* A finished run that printed responses after the ready line.
C13_Witness ==
    /\ pc = "done"
    /\ Len(stdout) = 3
    /\ stdout[1] = ReadyText
    /\ pos = 3

\* The line parsed, but to a value that cannot be used as a request object:
\* a number, or an array (here one that holds "text" and "model", so that
\* both presence checks pass and the indexing is what fails).
NotAnObject(l) ==
    l.kind = "json" /\ (l.val.type = "number"
                          \/ (l.val.type = "array" /\ {"text", "model"} \subseteq l.val.keys))

\* C14: handle_request returns a response object for every line and every
\* behaviour of the loader and the model, raising included; a line that
\* parses to a JSON value that is not an object is answered with
\* {"error": "Unexpected error: <detail>"} without touching the cache, and
\* the loop goes on to print the response and read again.
C14_NoFailureEscapesHandleRequest ==
    /\ [](pc = "handle" => ENABLED HandleRequest)
    /\ [][Handling => (response'.key \in {"embedding", "error"} /\ call'.resp = response')]_vars
    /\ [][(Handling /\ NotAnObject(line))
             => /\ response'.key = "error" /\ response'.shape = "str"
                /\ response'.msg = "Unexpected error" /\ response'.detail # ""
                /\ cache' = cache /\ loads' = loads]_vars
    /\ [][(pc = "write" /\ NotAnObject(line)) => pc' = "read"]_vars
    /\ []EndedByQuitOrEof

\* A number was answered with an Unexpected error, a request whose loader
\* raised was answered after it, and the loop is back at reading.
C14_Witness ==
    /\ pc = "read"
    /\ Len(answered) = 2
    /\ stdin[answered[1]].body.val.type = "number"
    /\ stdout[2].key = "error" /\ stdout[2].msg = "Unexpected error"
    /\ call.n = answered[2] /\ call.loaded /\ ~call.loadOk

\* The text of a {"error": "Server error: <detail>"} line on standard output.
IsServerErrorText(l) == l.key = "error" /\ l.shape = "string" /\ l.msg = "Server error"

\* main() is in its `except Exception` handler.
InHandler == pc \in {"except", "except_io"}

\* C15 as stated: an exception raised in the loop outside handle_request
\* (while reading a line, or while serialising or writing a response) causes
\* exactly one {"error": "Server error: <detail>"} line to be written, as the
\* last line of output; the loop ends and no later line is handled.
C15_LoopFailureReportedOnceThenExit ==
    /\ [][(pc \in {"start", "read", "write"} /\ InHandler') => Quiet]_vars
    /\ [][InHandler
             => /\ Len(stdout') = Len(stdout) + 1
                /\ SubSeq(stdout', 1, Len(stdout)) = stdout
                /\ IsServerErrorText(stdout'[Len(stdout')])
                /\ pc' = "exit"
                /\ pos' = pos /\ cache' = cache /\ answered' = answered /\ loads' = loads]_vars
    /\ [](\A i \in 1..Len(stdout) :
             IsServerErrorText(stdout[i]) => (i = Len(stdout) /\ pc \in {"exit", "done"}))
    /\ [][(pc \in {"exit", "done"}) => (Quiet /\ pc' = "done")]_vars

\* C15 amended: an exception raised in the loop outside handle_request ends
\* the loop, and no later line is read or handled.  At most one
\* {"error": "Server error: <detail>"} line is written, and it is the last
\* line of output: exactly one when the handler's print succeeds (as after a
\* failure to read a line or to serialise a response), none when standard
\* output is what failed, because the handler's print then fails too.
C15_LoopFailureEndsLoopReportedIfPossible ==
    /\ [][(pc \in {"start", "read", "write"} /\ InHandler') => Quiet]_vars
    /\ [][pc = "except"
             => /\ Len(stdout') = Len(stdout) + 1
                /\ SubSeq(stdout', 1, Len(stdout)) = stdout
                /\ IsServerErrorText(stdout'[Len(stdout')])
                /\ pc' = "exit"
                /\ pos' = pos /\ cache' = cache /\ answered' = answered /\ loads' = loads]_vars
    /\ [][pc = "except_io" => (Quiet /\ pc' = "exit")]_vars
    /\ [](\A i \in 1..Len(stdout) :
             IsServerErrorText(stdout[i]) => (i = Len(stdout) /\ pc \in {"exit", "done"}))
    /\ [][(pc \in {"exit", "done"}) => (Quiet /\ pc' = "done")]_vars

\* A request was answered, then the loop failed with input left over, and the
\* run ended with the Server error line as its last output.
C15_Witness ==
    /\ pc = "done"
    /\ Len(answered) = 1
    /\ Len(stdout) = 3
    /\ IsServerErrorText(stdout[3])
    /\ pos < Len(stdin)

\* The input holds no QUIT line.
NoQuitInInput == \A i \in 1..Len(stdin) : ~QuitLine(stdin[i])

\* The run is over after reading the whole input, with the ready line and
\* one response per request line on standard output and nothing else.
FinishedAtEndOfInput ==
    /\ pc = "done"
    /\ pos = Len(stdin)
    /\ answered = RequestPositions(Len(stdin))
    /\ Len(stdout) = 1 + Len(answered)
    /\ \A i \in 2..Len(stdout) : stdout[i].key \in {"embedding", "error"} /\ stdout[i].msg # "Server error"

\* C16: on an input without QUIT, with every load and inference call
\* returning, the server eventually reads to the end of input, leaves the
\* loop and runs the final cleanup, having printed only the ready line and
\* one response per request line; and it stays finished.
C16_TerminatesAtEndOfInput ==
    NoQuitInInput => <>[]FinishedAtEndOfInput

\* A finished run over a full-length input without QUIT.
C16_Witness ==
    /\ NoQuitInInput
    /\ FinishedAtEndOfInput
    /\ Len(stdin) >= 3
    /\ Len(answered) >= 2

\* The names for which some call of the loader so far succeeded.
LoadedNames == {loads[k].name : k \in {j \in 1..Len(loads) : loads[j].ok}}

\* C17: the cache only grows: an entry is never removed and its handle never
\* replaced; the cached names are exactly those for which an earlier load
\* succeeded, each loaded successfully exactly once, and the handle stored is
\* the one that load returned.
C17_CacheGrowsOnlyBySuccessfulLoads ==
    /\ [][\A m \in DOMAIN cache : m \in DOMAIN cache' /\ cache'[m] = cache[m]]_vars
    /\ [](DOMAIN cache = LoadedNames)
    /\ [](\A m \in DOMAIN cache :
             /\ Cardinality({k \in 1..Len(loads) : loads[k].name = m /\ loads[k].ok}) = 1
             /\ cache[m] \in 1..Len(loads)
             /\ loads[cache[m]].name = m /\ loads[cache[m]].ok)

\* Two models are cached, one of them after a failed first attempt.
C17_Witness ==
    /\ Cardinality(DOMAIN cache) = 2
    /\ \E k \in 1..Len(loads) : ~loads[k].ok
    /\ Len(loads) = 3

\* The line is rejected before model resolution: it is not JSON, or it is a
\* JSON object lacking text or model.
RejectedEarly(l) ==
    \/ l.kind = "word"
    \/ (l.kind = "json" /\ l.val.type = "object" /\ l.val.keys # {"text", "model"})

\* C18: handling a line that is malformed JSON or lacks text or model calls
\* neither the loader nor the model and leaves the cache as it is; so does
\* every step that reads a line, blank lines and QUIT included.
C18_RejectedRequestsTouchNothing ==
    /\ [][(Handling /\ RejectedEarly(line))
             => /\ cache' = cache /\ loads' = loads
                /\ ~call'.loaded /\ ~call'.encoded
                /\ call'.out = NoOutcome
                /\ response'.key = "error"]_vars
    /\ [][pc = "read" => (cache' = cache /\ loads' = loads /\ call' = call)]_vars

\* A model was cached by the first request; a blank line and a rejected
\* request followed, and the cache and the loader history are still those of
\* the first request.
C18_Witness ==
    /\ pc = "done"
    /\ Len(stdin) = 3 /\ pos = 3
    /\ DOMAIN cache = {"m1"} /\ Len(loads) = 1 /\ loads[1].at = 1
    /\ BlankLine(stdin[2])
    /\ RejectedEarly(stdin[3].body)
    /\ call.n = 3 /\ ~call.loaded /\ ~call.encoded

\* So far the loader was called for name m, and never with success.
OnlyFailedLoads(m) ==
    /\ \E k \in 1..Len(loads) : loads[k].name = m
    /\ \A k \in 1..Len(loads) : loads[k].name = m => ~loads[k].ok

\* The line is a request object with both fields.
FullRequest(l) == l.kind = "json" /\ l.val.type = "object" /\ l.val.keys = {"text", "model"}

\* C19: a failed load is not remembered: a request naming a model whose
\* loads so far all failed calls the loader again; if this load succeeds the
\* model is cached with the new handle and the request is answered with an
\* embedding (the vector, when inference succeeds); once cached the name
\* stays cached.
C19_FailedLoadIsRetried ==
    /\ [][(Handling /\ FullRequest(line) /\ OnlyFailedLoads(line.val.model))
             => /\ call'.loaded
                /\ Len(loads') = Len(loads) + 1
                /\ loads'[Len(loads')].name = line.val.model
                /\ call'.loadOk
                      => /\ line.val.model \in DOMAIN cache'
                         /\ cache'[line.val.model] = call'.model.handle
                         /\ call'.encoded
                         /\ response'.key = "embedding"
                         /\ call'.out.kind \in {"ndarray32", "ndarray64"}
                               => (response'.shape = "list" /\ Len(response'.vec) = Len(call'.out.vec))]_vars
    /\ [][\A m \in DOMAIN cache : m \in DOMAIN cache']_vars

\* The first load of a model failed, the second succeeded and the request
\* got its vector, and a third request for it was served from the cache.
C19_Witness ==
    /\ Returned /\ ReachedLoad
    /\ Len(loads) = 2
    /\ ~loads[1].ok /\ loads[2].ok
    /\ loads[1].name = loads[2].name
    /\ call.line.val.model = loads[2].name
    /\ call.n > loads[2].at
    /\ ~call.loaded
    /\ call.model = PyModel(2)
    /\ stdout[3].key = "embedding" /\ stdout[3].shape = "array of numbers"

====
